---- MODULE Spec2Model ----
(***************************************************************************)
(* Model of simple-dynamo-ts: the decorator metadata registry              *)
(* (src/decorators.ts), the generic repository                             *)
(* (src/simple-dynamodb-repository.ts) and a DynamoDB table behind the     *)
(* document client.                                                        *)
(*                                                                         *)
(* JavaScript strings are sequences of one-character strings, so that      *)
(* trim() and truthiness are computed, not assumed.  `undefined` is the    *)
(* distinguished value Undefined.                                          *)
(***************************************************************************)
EXTENDS Integers, Sequences, FiniteSets, TLC

VARIABLES
    metadata,   \* Reflect metadata: class -> metadata key -> value
    heap,       \* the index-key mapping objects the metadata refers to
    declared,   \* history: the declarations applied with success
    store,      \* table name -> the records the table holds
    pending,    \* the softDelete between its read and its write, if any
    lastPut,    \* history: the last successful put, until the next write
    last        \* the call that has just completed, with its outcome

vars == <<metadata, heap, declared, store, pending, lastPut, last>>

----------------------------------------------------------------------------
(* Bounds *)

\* Largest number of facts (names) the registry holds in an explored state.
MaxDecls == 2

----------------------------------------------------------------------------
(* Strings *)

Undefined == <<"undefined">>
EmptyStr == <<>>
Blanks == <<" ", " ">>

\* JavaScript truthiness of `string | undefined`.
Truthy(v) == v # Undefined /\ v # EmptyStr

\* a ?? b
Coalesce(a, b) == IF a # Undefined THEN a ELSE b

RECURSIVE TrimStart(_)
TrimStart(s) ==
    IF s = <<>> THEN s
    ELSE IF Head(s) = " " THEN TrimStart(Tail(s)) ELSE s

RECURSIVE TrimEnd(_)
TrimEnd(s) ==
    IF s = <<>> THEN s
    ELSE IF s[Len(s)] = " " THEN TrimEnd(SubSeq(s, 1, Len(s) - 1)) ELSE s

\* String.prototype.trim
Trim(s) == TrimEnd(TrimStart(s))

----------------------------------------------------------------------------
(* Classes, metadata keys, errors *)

\* Sub extends Base: Sub's constructor and prototype have Base's as
\* prototype, and Reflect.getMetadata walks that chain.
Classes == {"Base", "Sub"}
NoClass == "none"
Parent(c) == IF c = "Sub" THEN "Base" ELSE NoClass

\* Function.name of the class
ClassName(c) == IF c = "Base" THEN <<"B">> ELSE <<"S">>

DYNAMO_TABLE_NAME_KEY == "dynamo:table:name"
DYNAMO_PARTITION_KEY_KEY == "dynamo:partition:key"
DYNAMO_SORT_KEY_KEY == "dynamo:sort:key"
DYNAMO_INDEX_PARTITION_KEYS_KEY == "dynamo:index:partition:keys"
DYNAMO_INDEX_SORT_KEYS_KEY == "dynamo:index:sort:keys"

ScalarKeys ==
    {DYNAMO_TABLE_NAME_KEY, DYNAMO_PARTITION_KEY_KEY, DYNAMO_SORT_KEY_KEY}
IndexKeys == {DYNAMO_INDEX_PARTITION_KEYS_KEY, DYNAMO_INDEX_SORT_KEYS_KEY}
MetadataKeys == ScalarKeys \cup IndexKeys

\* Inputs of the declarations.
PropertyKeys == {<<"p">>, <<"s">>}
NameArgs == {Undefined, EmptyStr, Blanks, <<"s">>}
TableArgs == {Undefined, EmptyStr, Blanks, <<"T">>}
IndexArgs == {EmptyStr, Blanks, <<"E">>, <<"G">>}

NoError == [name |-> "none", message |-> ""]
DuplicateDecoratorError(decoratorName) ==
    [name |-> "DuplicateDecoratorError",
     message |-> "Multiple " \o decoratorName \o " decorators found"]
\* throw new Error(`Invalid ${paramName}: cannot be an empty string.`)
InvalidStringError(paramName) ==
    [name |-> "Error",
     message |-> "Invalid " \o paramName \o ": cannot be an empty string."]
IndexNameEmptyError ==
    [name |-> "Error", message |-> "indexName cannot be empty"]

----------------------------------------------------------------------------
(* reflect-metadata *)

\* The mapping objects `{}` held as index-key metadata live on a heap; the
\* object first created by class c under key k is named <<k, c>>.
ObjIds == {<<k, c>> : k \in IndexKeys, c \in Classes}
\* Any string can be a key of the object.
EmptyObject == [i \in IndexArgs |-> Undefined]

\* Reflect.getMetadata(key, target): own metadata, else the prototype's.
RECURSIVE GetMetadata(_, _, _)
GetMetadata(md, key, c) ==
    IF md[c][key] # Undefined THEN md[c][key]
    ELSE IF Parent(c) # NoClass THEN GetMetadata(md, key, Parent(c))
    ELSE Undefined

\* Reflect.defineMetadata(key, value, target): own metadata of target.
DefineMetadata(md, key, value, c) == [md EXCEPT ![c][key] = value]

\* existingKeys[indexName] on the object the reference names
Lookup(hp, ref, indexName) ==
    IF ref = Undefined THEN Undefined ELSE hp[ref][indexName]

----------------------------------------------------------------------------
(* Decorators *)

\* A variant that does not trim: it refuses the empty string only.
validateNonEmptyString_NoTrim(value, paramName) ==
    IF value = EmptyStr THEN InvalidStringError(paramName) ELSE NoError

\* validateNonEmptyString: the error it throws, or NoError.
validateNonEmptyString(value, paramName) ==
    IF Trim(value) = EmptyStr THEN InvalidStringError(paramName) ELSE NoError

\* A variant that tests `if (existingKey)`: a recorded empty name passes.
validateDuplicateDecorator_Truthy(md, c, key, decoratorName) ==
    IF Truthy(GetMetadata(md, key, c))
    THEN DuplicateDecoratorError(decoratorName)
    ELSE NoError

\* validateDuplicateDecorator: the error it throws, or NoError.
validateDuplicateDecorator(md, c, key, decoratorName) ==
    IF GetMetadata(md, key, c) # Undefined
    THEN DuplicateDecoratorError(decoratorName)
    ELSE NoError

\* `if (name) validateNonEmptyString(name, paramName)`
ValidateOptionalName(name, paramName) ==
    IF Truthy(name) THEN validateNonEmptyString(name, paramName) ELSE NoError

\* The body shared by DynamoTable, PartitionKey and SortKey: validate the
\* name, default it, reject a duplicate, define the metadata.
ScalarDecorator(md, c, key, decoratorName, name, paramName, default) ==
    LET invalid == ValidateOptionalName(name, paramName)
        dynamoName == Coalesce(name, default)
        dup == validateDuplicateDecorator(md, c, key, decoratorName)
    IN  IF invalid # NoError THEN [md |-> md, err |-> invalid]
        ELSE IF dup # NoError THEN [md |-> md, err |-> dup]
        ELSE [md |-> DefineMetadata(md, key, dynamoName, c), err |-> NoError]

\* A variant that does not reject a duplicate: the last name wins.
DynamoTableDecorator_Overwrite(md, c, tableName) ==
    LET invalid == ValidateOptionalName(tableName, "tableName") IN
    IF invalid # NoError THEN [md |-> md, err |-> invalid]
    ELSE [md |-> DefineMetadata(md, DYNAMO_TABLE_NAME_KEY,
                                Coalesce(tableName, ClassName(c)), c),
          err |-> NoError]

DynamoTableDecorator(md, c, tableName) ==
    ScalarDecorator(md, c, DYNAMO_TABLE_NAME_KEY, "@DynamoTable",
                    tableName, "tableName", ClassName(c))

\* A variant that records the property's own name whatever name is given.
PartitionKeyDecorator_PropertyName(md, c, propertyKey, fieldName) ==
    LET r == ScalarDecorator(md, c, DYNAMO_PARTITION_KEY_KEY, "@PartitionKey",
                             fieldName, "fieldName", propertyKey)
    IN  IF r.err # NoError THEN r
        ELSE [md |-> DefineMetadata(md, DYNAMO_PARTITION_KEY_KEY, propertyKey, c),
              err |-> NoError]

PartitionKeyDecorator(md, c, propertyKey, fieldName) ==
    ScalarDecorator(md, c, DYNAMO_PARTITION_KEY_KEY, "@PartitionKey",
                    fieldName, "fieldName", propertyKey)

SortKeyDecorator(md, c, propertyKey, fieldName) ==
    ScalarDecorator(md, c, DYNAMO_SORT_KEY_KEY, "@SortKey",
                    fieldName, "fieldName", propertyKey)

\* A variant that is not scoped per index name: it rejects a declaration once
\* the mapping holds a field for any index.
IndexDecorator_AnyIndex(md, hp, c, key, decoratorName, propertyKey, indexName, fieldName) ==
    LET badIndex == validateNonEmptyString(indexName, "indexName")
        badField == ValidateOptionalName(fieldName, "fieldName")
        dynamoFieldName == Coalesce(fieldName, propertyKey)
        found == GetMetadata(md, key, c)
        existingKeys == IF found # Undefined THEN found ELSE <<key, c>>
        hp1 == IF found # Undefined THEN hp
               ELSE [hp EXCEPT ![existingKeys] = EmptyObject]
    IN  IF badIndex # NoError THEN [md |-> md, hp |-> hp, err |-> badIndex]
        ELSE IF badField # NoError THEN [md |-> md, hp |-> hp, err |-> badField]
        ELSE IF \E i \in IndexArgs : Lookup(hp1, existingKeys, i) # Undefined
        THEN [md |-> md, hp |-> hp, err |-> DuplicateDecoratorError(decoratorName)]
        ELSE [md |-> DefineMetadata(md, key, existingKeys, c),
              hp |-> [hp1 EXCEPT ![existingKeys][indexName] = dynamoFieldName],
              err |-> NoError]

\* A variant that writes the field before it looks for a duplicate.
IndexDecorator_WriteFirst(md, hp, c, key, decoratorName, propertyKey, indexName, fieldName) ==
    LET badIndex == validateNonEmptyString(indexName, "indexName")
        badField == ValidateOptionalName(fieldName, "fieldName")
        dynamoFieldName == Coalesce(fieldName, propertyKey)
        found == GetMetadata(md, key, c)
        existingKeys == IF found # Undefined THEN found ELSE <<key, c>>
        hp1 == IF found # Undefined THEN hp
               ELSE [hp EXCEPT ![existingKeys] = EmptyObject]
        written == [hp1 EXCEPT ![existingKeys][indexName] = dynamoFieldName]
    IN  IF badIndex # NoError THEN [md |-> md, hp |-> hp, err |-> badIndex]
        ELSE IF badField # NoError THEN [md |-> md, hp |-> hp, err |-> badField]
        ELSE IF Lookup(hp1, existingKeys, indexName) # Undefined
        THEN [md |-> md, hp |-> written, err |-> DuplicateDecoratorError(decoratorName)]
        ELSE [md |-> DefineMetadata(md, key, existingKeys, c), hp |-> written,
              err |-> NoError]

\* The body shared by IndexPartitionKey and IndexSortKey.
IndexDecorator(md, hp, c, key, decoratorName, propertyKey, indexName, fieldName) ==
    LET badIndex == validateNonEmptyString(indexName, "indexName")
        badField == ValidateOptionalName(fieldName, "fieldName")
        dynamoFieldName == Coalesce(fieldName, propertyKey)
        found == GetMetadata(md, key, c)
        \* (Reflect.getMetadata(...) ?? {})
        existingKeys == IF found # Undefined THEN found ELSE <<key, c>>
        hp1 == IF found # Undefined THEN hp
               ELSE [hp EXCEPT ![existingKeys] = EmptyObject]
    IN  IF badIndex # NoError THEN [md |-> md, hp |-> hp, err |-> badIndex]
        ELSE IF badField # NoError THEN [md |-> md, hp |-> hp, err |-> badField]
        ELSE IF Lookup(hp1, existingKeys, indexName) # Undefined
        THEN [md |-> md, hp |-> hp, err |-> DuplicateDecoratorError(decoratorName)]
        ELSE [md |-> DefineMetadata(md, key, existingKeys, c),
              hp |-> [hp1 EXCEPT ![existingKeys][indexName] = dynamoFieldName],
              err |-> NoError]

IndexPartitionKeyDecorator(md, hp, c, propertyKey, indexName, fieldName) ==
    IndexDecorator(md, hp, c, DYNAMO_INDEX_PARTITION_KEYS_KEY,
                   "@IndexPartitionKey", propertyKey, indexName, fieldName)

IndexSortKeyDecorator(md, hp, c, propertyKey, indexName, fieldName) ==
    IndexDecorator(md, hp, c, DYNAMO_INDEX_SORT_KEYS_KEY,
                   "@IndexSortKey", propertyKey, indexName, fieldName)

----------------------------------------------------------------------------
(* Helper functions of decorators.ts: what each returns, or the error *)

Returned(v) == [err |-> NoError, value |-> v]
Thrown(e) == [err |-> e, value |-> Undefined]

getDynamoTableName(md, c) == GetMetadata(md, DYNAMO_TABLE_NAME_KEY, c)
getPartitionKeyName(md, c) == GetMetadata(md, DYNAMO_PARTITION_KEY_KEY, c)
getSortKeyName(md, c) == GetMetadata(md, DYNAMO_SORT_KEY_KEY, c)

\* `if (!indexName || indexName.trim() === "") throw`, then indexKeys?.[indexName]
IndexLookup(md, hp, c, key, indexName) ==
    IF ~Truthy(indexName) \/ Trim(indexName) = EmptyStr
    THEN Thrown(IndexNameEmptyError)
    ELSE Returned(Lookup(hp, GetMetadata(md, key, c), indexName))

getIndexPartitionKeyName(md, hp, c, indexName) ==
    IndexLookup(md, hp, c, DYNAMO_INDEX_PARTITION_KEYS_KEY, indexName)

getIndexSortKeyName(md, hp, c, indexName) ==
    IndexLookup(md, hp, c, DYNAMO_INDEX_SORT_KEYS_KEY, indexName)

----------------------------------------------------------------------------
(* Items, requests and the table behind the client *)

\* Attribute names of the records in play.
DeletedAt == <<"d", "e", "l", "e", "t", "e", "d", "A", "t">>
Attrs == {<<"p">>, <<"s">>, <<"v">>, DeletedAt}

\* A value where an item is expected: an object with its attributes
\* (attribute name -> value, Undefined where it has no such attribute),
\* `null` or `undefined`.
NoAttrs == [a \in Attrs |-> Undefined]
Null == [kind |-> "null", attrs |-> NoAttrs]
UndefinedItem == [kind |-> "undefined", attrs |-> NoAttrs]
IsAbsent(item) == item.kind # "object"

Item(p, s, v) ==
    [kind |-> "object",
     attrs |-> [a \in Attrs |-> IF a = <<"p">> THEN p
                                ELSE IF a = <<"s">> THEN s
                                ELSE IF a = <<"v">> THEN v ELSE Undefined]]
Attr(item, a) == IF a \in Attrs THEN item.attrs[a] ELSE Undefined

\* The number 0 where a DynamoKey (string | number) is expected.
Zero == <<"number", "0">>
One == <<"number", "1">>
IsNumber(v) == Len(v) = 2 /\ v[1] = "number"

PkValues == {<<"u">>}
SkValues == {<<"a">>}
Payloads == {<<"1">>, <<"2">>}
Items == {Item(p, s, v) : p \in PkValues, s \in SkValues \cup {Undefined}, v \in Payloads}
ItemArgs == Items \cup {Null, UndefinedItem}

\* new Date().toISOString()
Timestamps == {<<"2", "0", "2", "4">>}

\* The tables the store holds and their key schemas.
Tables == {<<"T">>, <<"B">>}
KeySchema(t) ==
    IF t = <<"T">> THEN [hash |-> <<"p">>, range |-> <<"s">>]
    ELSE [hash |-> <<"p">>, range |-> Undefined]
KeyAttrs(t) == {KeySchema(t).hash, KeySchema(t).range} \ {Undefined}

\* The primary key of an item of table t: attribute name -> value.
KeyOf(t, item) == [a \in KeyAttrs(t) |-> Attr(item, a)]

\* The record table t holds under a key, UndefinedItem if none.
Stored(st, t, key) ==
    IF \E x \in st[t] : KeyOf(t, x) = key
    THEN CHOOSE x \in st[t] : KeyOf(t, x) = key
    ELSE UndefinedItem

NoExpression == <<>>
NoNames == <<>>

\* The global secondary indexes of a table and their key schemas.
IndexSchema(t, indexName) ==
    IF t = <<"T">> /\ indexName = <<"E">>
    THEN [hash |-> <<"s">>, range |-> <<"v">>]
    ELSE [hash |-> Undefined, range |-> Undefined]
\* The key schema a query runs against.
QuerySchema(t, indexName) ==
    IF indexName = Undefined THEN KeySchema(t) ELSE IndexSchema(t, indexName)

\* Order of strings by code unit, over the characters of the values used.
Alphabet == <<"1", "2", "a", "s", "u", "v">>
Rank(ch) == CHOOSE i \in 1..Len(Alphabet) : Alphabet[i] = ch
RECURSIVE Less(_, _)
Less(a, b) ==
    IF b = <<>> THEN FALSE
    ELSE IF a = <<>> THEN TRUE
    ELSE IF Head(a) = Head(b) THEN Less(Tail(a), Tail(b))
    ELSE Rank(Head(a)) < Rank(Head(b))
BeginsWith(a, prefix) ==
    Len(prefix) <= Len(a) /\ SubSeq(a, 1, Len(prefix)) = prefix

\* A sort key condition on an attribute value.
Compare(comparator, a, v) ==
    CASE comparator = "=" -> a = v
      [] comparator = "<" -> Less(a, v)
      [] comparator = ">" -> Less(v, a)
      [] comparator = "<=" -> a = v \/ Less(a, v)
      [] comparator = ">=" -> a = v \/ Less(v, a)
      [] comparator = "begins_with" -> BeginsWith(a, v)
      [] OTHER -> FALSE

\* The records of a set as an array, in some order.
RECURSIVE SetToSeq(_)
SetToSeq(S) ==
    IF S = {} THEN <<>>
    ELSE LET x == CHOOSE y \in S : TRUE IN <<x>> \o SetToSeq(S \ {x})

\* Expression text is a sequence of fragments; Text is the string they spell.
RECURSIVE Text(_)
Text(frags) == IF frags = <<>> THEN "" ELSE Head(frags) \o Text(Tail(frags))

PutCommand(tableName, item, condition, names) ==
    [cmd |-> "Put", TableName |-> tableName, Item |-> item,
     ConditionExpression |-> condition, ExpressionAttributeNames |-> names]
GetCommand(tableName, key) == [cmd |-> "Get", TableName |-> tableName, Key |-> key]
DeleteCommand(tableName, key) ==
    [cmd |-> "Delete", TableName |-> tableName, Key |-> key]
QueryCommand(tableName, indexName, condition, names, values, limit, forward) ==
    [cmd |-> "Query", TableName |-> tableName, IndexName |-> indexName,
     KeyConditionExpression |-> condition, ExpressionAttributeNames |-> names,
     ExpressionAttributeValues |-> values, Limit |-> limit,
     ScanIndexForward |-> forward]

StoreError(name) == [name |-> name, message |-> "store"]
ConditionalCheckFailed == StoreError("ConditionalCheckFailedException")
ValidationException == StoreError("ValidationException")
ResourceNotFound == StoreError("ResourceNotFoundException")
\* Failures the store may raise on any request (throttling, network).
Faults == {StoreError("ProvisionedThroughputExceededException")}

\* attribute_not_exists(#x) AND ...: every attribute named under
\* attribute_not_exists( is absent from the record at the key.
ConditionHolds(condition, names, existing) ==
    \A i \in 1..Len(condition) :
        condition[i] = "attribute_not_exists(" =>
            \/ IsAbsent(existing)
            \/ Attr(existing, names[condition[i + 1]]) = Undefined

\* The count of a response that carries none.
NoCount == -1
Response(st, err, item) ==
    [store |-> st, err |-> err, Item |-> item, Items |-> <<>>, Count |-> NoCount,
     LastEvaluatedKey |-> UndefinedItem]
QueryResponse(st, items) ==
    [store |-> st, err |-> NoError, Item |-> UndefinedItem, Items |-> items,
     Count |-> Len(items), LastEvaluatedKey |-> UndefinedItem]

\* The response as the client hands it over: with the count the store
\* reports, or without a count.
Counted(resp, counted) == IF counted THEN resp ELSE [resp EXCEPT !.Count = NoCount]

\* The sort key condition of a key condition expression: the comparator
\* between #sk and :skValue, "begins_with" for the function, "" if the
\* expression has none.
SortCondition(condition) ==
    IF Len(condition) <= 3 THEN ""
    ELSE IF condition[5] = "begins_with(" THEN "begins_with"
    ELSE condition[7]

\* What the store answers to a well-addressed Query: it refuses key names
\* that are not the key of the table or index, an operator it does not know
\* (BETWEEN wants two operands), and key values that are not non-empty
\* strings; else it returns the records under the partition key value whose
\* sort key satisfies the condition.
RunQuery(st, req) ==
    LET t == req.TableName
        schema == QuerySchema(t, req.IndexName)
        names == req.ExpressionAttributeNames
        values == req.ExpressionAttributeValues
        comparator == SortCondition(req.KeyConditionExpression)
        sorted == comparator # ""
        BadValue(v) == v = EmptyStr \/ IsNumber(v)
        matches == {x \in st[t] :
                      /\ Attr(x, schema.hash) = values[":pkValue"]
                      /\ (schema.range # Undefined => Attr(x, schema.range) # Undefined)
                      /\ sorted => Compare(comparator, Attr(x, schema.range),
                                           values[":skValue"])}
    IN  IF \/ schema.hash = Undefined
           \/ names["#pk"] # schema.hash
           \/ BadValue(values[":pkValue"])
           \/ sorted /\ \/ names["#sk"] # schema.range
                        \/ BadValue(values[":skValue"])
                        \/ comparator \notin {"=", "<", ">", "<=", ">=", "begins_with"}
        THEN Response(st, ValidationException, UndefinedItem)
        ELSE QueryResponse(st, SetToSeq(matches))

\* What a faithful store does with one request; fault is the failure it
\* raises on its own account, NoError if none.
Send(st, req, fault) ==
    IF fault # NoError THEN Response(st, fault, UndefinedItem)
    ELSE IF req.TableName \notin Tables THEN Response(st, ResourceNotFound, UndefinedItem)
    ELSE LET t == req.TableName IN
    CASE req.cmd = "Put" ->
           LET key == KeyOf(t, req.Item)
               existing == Stored(st, t, key)
           IN  IF \E a \in KeyAttrs(t) : key[a] = Undefined
               THEN Response(st, ValidationException, UndefinedItem)
               ELSE IF ~ConditionHolds(req.ConditionExpression,
                                       req.ExpressionAttributeNames, existing)
               THEN Response(st, ConditionalCheckFailed, UndefinedItem)
               ELSE Response([st EXCEPT ![t] = (@ \ {existing}) \cup {req.Item}],
                             NoError, UndefinedItem)
      [] req.cmd = "Get" ->
           IF DOMAIN req.Key # KeyAttrs(t)
           THEN Response(st, ValidationException, UndefinedItem)
           ELSE Response(st, NoError, Stored(st, t, req.Key))
      [] req.cmd = "Delete" ->
           IF DOMAIN req.Key # KeyAttrs(t)
           THEN Response(st, ValidationException, UndefinedItem)
           ELSE Response([st EXCEPT ![t] = @ \ {Stored(st, t, req.Key)}],
                         NoError, UndefinedItem)
      [] req.cmd = "Query" -> RunQuery(st, req)

----------------------------------------------------------------------------
(* DynamoDBRepository: the synchronous part of each method *)

DecoratorMissingError(what) ==
    [name |-> "DecoratorMissingError", message |-> what \o " not found"]
InvalidParametersError ==
    [name |-> "InvalidParametersError",
     message |-> "Item cannot be null or undefined!"]
ItemNotFoundError ==
    [name |-> "ItemNotFoundError",
     message |-> "Item not found in your DynamoDB Table!"]
\* create: throw new Error("Item cannot be null or undefined")
CreateItemError ==
    [name |-> "Error", message |-> "Item cannot be null or undefined"]

\* A variant that keeps what it found when the repository was constructed,
\* before the class was decorated: no table name.
getTableName_Cached(md, c) == Thrown(DecoratorMissingError("Table name"))

\* A variant that passes on whatever the registry holds, a missing name too.
getTableName_Unchecked(md, c) == Returned(getDynamoTableName(md, c))

getTableName(md, c) ==
    LET tableName == getDynamoTableName(md, c) IN
    IF ~Truthy(tableName) THEN Thrown(DecoratorMissingError("Table name"))
    ELSE Returned(tableName)

\* `if (indexName) name = getIndex...Name(entityClass, indexName)`
IndexScoped(lookup, indexName) ==
    IF Truthy(indexName) THEN lookup ELSE Returned(Undefined)

getPKName(md, hp, c, indexName) ==
    LET scoped == IndexScoped(getIndexPartitionKeyName(md, hp, c, indexName), indexName)
        pkName == IF Truthy(scoped.value) THEN scoped.value
                  ELSE getPartitionKeyName(md, c)
    IN  IF scoped.err # NoError THEN scoped
        ELSE IF Truthy(pkName) THEN Returned(pkName)
        ELSE Thrown(DecoratorMissingError("Partition key"))

getSKName(md, hp, c, indexName) ==
    LET scoped == IndexScoped(getIndexSortKeyName(md, hp, c, indexName), indexName)
    IN  IF scoped.err # NoError THEN scoped
        ELSE IF Truthy(scoped.value) THEN Returned(scoped.value)
        ELSE Returned(getSortKeyName(md, c))

\* A variant that puts each value under the other key's name.
buildKeyMap_Swapped(md, hp, c, pk, sk) ==
    LET partitionKey == getPKName(md, hp, c, Undefined)
        sortKey == getSKName(md, hp, c, Undefined)
    IN  IF partitionKey.err # NoError THEN partitionKey
        ELSE IF sk = Undefined THEN Returned(partitionKey.value :> pk)
        ELSE IF sortKey.err # NoError THEN sortKey
        ELSE IF ~Truthy(sortKey.value)
        THEN Thrown(DecoratorMissingError("Sort key"))
        ELSE Returned((sortKey.value :> pk) @@ (partitionKey.value :> sk))

\* keys = { [partitionKey]: pk }; keys[sortKey] = sk
buildKeyMap(md, hp, c, pk, sk) ==
    LET partitionKey == getPKName(md, hp, c, Undefined)
        sortKey == getSKName(md, hp, c, Undefined)
    IN  IF partitionKey.err # NoError THEN partitionKey
        ELSE IF sk = Undefined THEN Returned(partitionKey.value :> pk)
        ELSE IF sortKey.err # NoError THEN sortKey
        ELSE IF ~Truthy(sortKey.value)
        THEN Thrown(DecoratorMissingError("Sort key"))
        ELSE Returned((sortKey.value :> sk) @@ (partitionKey.value :> pk))

\* A variant that sends no condition: create would overwrite as put does.
buildCreateConditionExpression_None(skName) == NoExpression

buildCreateConditionExpression(skName) ==
    IF Truthy(skName)
    THEN <<"attribute_not_exists(", "#pk", ")", " AND ",
           "attribute_not_exists(", "#sk", ")">>
    ELSE <<"attribute_not_exists(", "#pk", ")">>

\* A variant that binds #sk whether there is a sort key or not.
buildExpressionAttributeNames_Both(pkName, skName) ==
    ("#pk" :> pkName) @@ ("#sk" :> skName)

buildExpressionAttributeNames(pkName, skName) ==
    IF Truthy(skName) THEN ("#pk" :> pkName) @@ ("#sk" :> skName)
    ELSE ("#pk" :> pkName)

\* What a method does before it awaits the client: the error it throws, or
\* the command it sends.
Prepared(req) == [err |-> NoError, req |-> req]
Failed(e) == [err |-> e, req |-> GetCommand(Undefined, <<>>)]

createPrepare(md, hp, c, item) ==
    LET tableName == getTableName(md, c)
        partitionKey == getPKName(md, hp, c, Undefined)
        sortKey == getSKName(md, hp, c, Undefined)
    IN  IF IsAbsent(item) THEN Failed(CreateItemError)
        ELSE IF tableName.err # NoError THEN Failed(tableName.err)
        ELSE IF partitionKey.err # NoError THEN Failed(partitionKey.err)
        ELSE IF sortKey.err # NoError THEN Failed(sortKey.err)
        ELSE Prepared(PutCommand(tableName.value, item,
                 buildCreateConditionExpression(sortKey.value),
                 buildExpressionAttributeNames(partitionKey.value, sortKey.value)))

getItemPrepare(md, hp, c, pk, sk) ==
    LET tableName == getTableName(md, c)
        key == buildKeyMap(md, hp, c, pk, sk)
    IN  IF tableName.err # NoError THEN Failed(tableName.err)
        ELSE IF key.err # NoError THEN Failed(key.err)
        ELSE Prepared(GetCommand(tableName.value, key.value))

\* A variant whose write is refused where a record is held at the key.
putPrepare_Guarded(md, c, item) ==
    LET tableName == getTableName(md, c) IN
    IF IsAbsent(item) THEN Failed(InvalidParametersError)
    ELSE IF tableName.err # NoError THEN Failed(tableName.err)
    ELSE Prepared(PutCommand(tableName.value, item,
                      <<"attribute_not_exists(", "#pk", ")">>, "#pk" :> <<"p">>))

putPrepare(md, c, item) ==
    LET tableName == getTableName(md, c) IN
    IF IsAbsent(item) THEN Failed(InvalidParametersError)
    ELSE IF tableName.err # NoError THEN Failed(tableName.err)
    ELSE Prepared(PutCommand(tableName.value, item, NoExpression, NoNames))

removePrepare(md, hp, c, pk, sk) ==
    LET tableName == getTableName(md, c)
        key == buildKeyMap(md, hp, c, pk, sk)
    IN  IF tableName.err # NoError THEN Failed(tableName.err)
        ELSE IF key.err # NoError THEN Failed(key.err)
        ELSE Prepared(DeleteCommand(tableName.value, key.value))

\* A variant that returns whatever the read reports, an absent item too.
getItemResult_Unchecked(resp) ==
    IF resp.err # NoError THEN [err |-> resp.err, item |-> UndefinedItem]
    ELSE [err |-> NoError, item |-> resp.Item]

\* The options of a query; an option left out is Undefined (for the
\* comparator, a string: NoComparator).
NoComparator == "undefined"
QueryOptions(pk, sk, skComparator, indexName, scanIndexForward, limit) ==
    [pk |-> pk, sk |-> sk, skComparator |-> skComparator, indexName |-> indexName,
     scanIndexForward |-> scanIndexForward, limit |-> limit]

\* A variant that adds the sort key condition whenever it is given a sort
\* key name, a sort value or not.
buildQueryExpressions_NameOnly(pk, pkName, sk, skName, skComparator) ==
    IF Truthy(skName)
    THEN [keyConditionExpression |->
             <<"#pk", " = ", ":pkValue", " AND ", "#sk", " ", skComparator, " ",
               ":skValue">>,
          expressionAttributeNames |-> ("#pk" :> pkName) @@ ("#sk" :> skName),
          expressionAttributeValues |-> (":pkValue" :> pk) @@ (":skValue" :> sk)]
    ELSE [keyConditionExpression |-> <<"#pk", " = ", ":pkValue">>,
          expressionAttributeNames |-> ("#pk" :> pkName),
          expressionAttributeValues |-> (":pkValue" :> pk)]

\* A variant that gives BETWEEN its two operands.
buildQueryExpressions_TwoBounds(pk, pkName, sk, skName, skComparator) ==
    IF sk # Undefined /\ Truthy(skName)
    THEN [keyConditionExpression |->
             <<"#pk", " = ", ":pkValue">> \o
             (IF skComparator = "begins_with"
              THEN <<" AND ", "begins_with(", "#sk", ", ", ":skValue", ")">>
              ELSE IF skComparator = "BETWEEN"
              THEN <<" AND ", "#sk", " ", skComparator, " ", ":skValue",
                     " AND ", ":skValue2">>
              ELSE <<" AND ", "#sk", " ", skComparator, " ", ":skValue">>),
          expressionAttributeNames |-> ("#pk" :> pkName) @@ ("#sk" :> skName),
          expressionAttributeValues |->
             IF skComparator = "BETWEEN"
             THEN (":pkValue" :> pk) @@ (":skValue" :> sk) @@ (":skValue2" :> sk)
             ELSE (":pkValue" :> pk) @@ (":skValue" :> sk)]
    ELSE [keyConditionExpression |-> <<"#pk", " = ", ":pkValue">>,
          expressionAttributeNames |-> ("#pk" :> pkName),
          expressionAttributeValues |-> (":pkValue" :> pk)]

buildQueryExpressions(pk, pkName, sk, skName, skComparator) ==
    IF sk # Undefined /\ Truthy(skName)
    THEN [keyConditionExpression |->
             <<"#pk", " = ", ":pkValue">> \o
             (IF skComparator = "begins_with"
              THEN <<" AND ", "begins_with(", "#sk", ", ", ":skValue", ")">>
              ELSE <<" AND ", "#sk", " ", skComparator, " ", ":skValue">>),
          expressionAttributeNames |-> ("#pk" :> pkName) @@ ("#sk" :> skName),
          expressionAttributeValues |-> (":pkValue" :> pk) @@ (":skValue" :> sk)]
    ELSE [keyConditionExpression |-> <<"#pk", " = ", ":pkValue">>,
          expressionAttributeNames |-> ("#pk" :> pkName),
          expressionAttributeValues |-> (":pkValue" :> pk)]

\* query up to its await: the defaults of the options, the names resolved,
\* the error thrown or the QueryCommand built.
queryPrepare(md, hp, c, options) ==
    LET skComparator == IF options.skComparator = NoComparator THEN "="
                        ELSE options.skComparator
        scanIndexForward == IF options.scanIndexForward = Undefined THEN <<"true">>
                            ELSE options.scanIndexForward
        tableName == getTableName(md, c)
        pkName == getPKName(md, hp, c, options.indexName)
        skName == IF options.sk # Undefined
                  THEN getSKName(md, hp, c, options.indexName)
                  ELSE Returned(Undefined)
        built == buildQueryExpressions(options.pk, pkName.value, options.sk,
                                       skName.value, skComparator)
    IN  IF tableName.err # NoError THEN Failed(tableName.err)
        ELSE IF pkName.err # NoError THEN Failed(pkName.err)
        ELSE IF skName.err # NoError THEN Failed(skName.err)
        ELSE IF options.sk # Undefined /\ ~Truthy(skName.value)
        THEN Failed(DecoratorMissingError("Sort key"))
        ELSE Prepared(QueryCommand(tableName.value, options.indexName,
                 built.keyConditionExpression, built.expressionAttributeNames,
                 built.expressionAttributeValues, options.limit, scanIndexForward))

\* What a query returns: the items, the continuation key, the count.
NoResult == [items |-> <<>>, lastEvaluatedKey |-> UndefinedItem, count |-> NoCount]

\* query after the await: `count: response.Count ? response.Count : 0`; a
\* store error is rethrown.
\* A variant that passes on the count of the response as it is.
queryResult_Raw(resp) ==
    IF resp.err # NoError THEN [err |-> resp.err, result |-> NoResult]
    ELSE [err |-> NoError,
          result |-> [items |-> resp.Items,
                      lastEvaluatedKey |-> resp.LastEvaluatedKey,
                      count |-> resp.Count]]

queryResult(resp) ==
    IF resp.err # NoError THEN [err |-> resp.err, result |-> NoResult]
    ELSE [err |-> NoError,
          result |-> [items |-> resp.Items,
                      lastEvaluatedKey |-> resp.LastEvaluatedKey,
                      count |-> IF resp.Count \notin {NoCount, 0} THEN resp.Count
                                ELSE 0]]

\* A variant that reports every failure of the read as a missing item.
getItemResult_NotFound(resp) ==
    IF resp.err = NoError /\ ~IsAbsent(resp.Item)
    THEN [err |-> NoError, item |-> resp.Item]
    ELSE [err |-> ItemNotFoundError, item |-> UndefinedItem]

\* getItem after the await: `if (response.Item) return response.Item`,
\* else ItemNotFoundError; a store error is rethrown.
getItemResult(resp) ==
    IF resp.err # NoError THEN [err |-> resp.err, item |-> UndefinedItem]
    ELSE IF ~IsAbsent(resp.Item) THEN [err |-> NoError, item |-> resp.Item]
    ELSE [err |-> ItemNotFoundError, item |-> UndefinedItem]

\* A variant that returns the item whatever the store answered.
writeResult_Swallow(resp, item) == [err |-> NoError, item |-> item]

\* create and put after the await: `return item`; a store error is rethrown.
writeResult(resp, item) ==
    IF resp.err # NoError THEN [err |-> resp.err, item |-> UndefinedItem]
    ELSE [err |-> NoError, item |-> item]

----------------------------------------------------------------------------
(* State *)

\* Number of names the registry holds.
NumFacts(md, hp) ==
    Cardinality({<<c, k>> \in Classes \X ScalarKeys : md[c][k] # Undefined})
    + Cardinality({<<o, i>> \in ObjIds \X IndexArgs : hp[o][i] # Undefined})

\* A declaration that records a name is explored only below the bound.
WithinBound(err) == err # NoError \/ NumFacts(metadata, heap) < MaxDecls

\* History: the write of another caller that completed on the key of a
\* softDelete between its read and its write ("none" if none did).
NoOvertake == [op |-> "none", item |-> UndefinedItem]
Overtake(op, item) == [op |-> op, item |-> item]

NoArgs == [none |-> TRUE]
NoCall ==
    [op |-> "none", cls |-> NoClass, args |-> NoArgs, err |-> NoError,
     ret |-> Undefined, item |-> UndefinedItem, result |-> NoResult,
     reqs |-> <<>>, overtaken |-> NoOvertake]

\* A completed call: the method, the class, the arguments, the error thrown
\* (NoError if none), the name or the item returned, the requests sent.
Call(op, c, args, err, ret, item, reqs) ==
    [op |-> op, cls |-> c, args |-> args, err |-> err, ret |-> ret,
     item |-> item, result |-> NoResult, reqs |-> reqs, overtaken |-> NoOvertake]

DeclArgs(prop, index, name) == [prop |-> prop, index |-> index, name |-> name]
Declared(op, c, args, err) == Call(op, c, args, err, Undefined, UndefinedItem, <<>>)
Resolved(op, c, index, r) ==
    Call(op, c, DeclArgs(Undefined, index, Undefined), r.err, r.value,
         UndefinedItem, <<>>)

\* No call is awaiting its caller: the caller is free to make the next one.
Idle == last.op = "none"

NoPending == [cls |-> NoClass, pk |-> Undefined, sk |-> Undefined,
              item |-> UndefinedItem, reqs |-> <<>>, overtaken |-> NoOvertake]
NoPut == [cls |-> NoClass, item |-> UndefinedItem]

EmptyMetadata == [c \in Classes |-> [k \in MetadataKeys |-> Undefined]]
EmptyHeap == [o \in ObjIds |-> EmptyObject]
Registry(md, hp) == [md |-> md, hp |-> hp, decl |-> {}, err |-> NoError]

\* The declaration of kind key (for index indexName, Undefined if the kind
\* has none) applied to class c; it joins the history if it succeeded.
Declaration(c, key, indexName) == <<c, key, indexName>>
Applied(decl, err, c, key, indexName) ==
    IF err = NoError THEN decl \cup {Declaration(c, key, indexName)} ELSE decl

\* The entity classes a program defines before it uses a repository: each
\* is the registry its decorators leave, applied as the class is defined
\* (property decorators first, the class decorator last).
WithTable(c, name, reg) ==
    LET r == DynamoTableDecorator(reg.md, c, name) IN
    [md |-> r.md, hp |-> reg.hp,
     decl |-> Applied(reg.decl, r.err, c, DYNAMO_TABLE_NAME_KEY, Undefined),
     err |-> IF reg.err # NoError THEN reg.err ELSE r.err]
WithPartitionKey(c, prop, name, reg) ==
    LET r == PartitionKeyDecorator(reg.md, c, prop, name) IN
    [md |-> r.md, hp |-> reg.hp,
     decl |-> Applied(reg.decl, r.err, c, DYNAMO_PARTITION_KEY_KEY, Undefined),
     err |-> IF reg.err # NoError THEN reg.err ELSE r.err]
WithSortKey(c, prop, name, reg) ==
    LET r == SortKeyDecorator(reg.md, c, prop, name) IN
    [md |-> r.md, hp |-> reg.hp,
     decl |-> Applied(reg.decl, r.err, c, DYNAMO_SORT_KEY_KEY, Undefined),
     err |-> IF reg.err # NoError THEN reg.err ELSE r.err]
WithIndexPartitionKey(c, prop, indexName, name, reg) ==
    LET r == IndexPartitionKeyDecorator(reg.md, reg.hp, c, prop, indexName, name) IN
    [md |-> r.md, hp |-> r.hp,
     decl |-> Applied(reg.decl, r.err, c, DYNAMO_INDEX_PARTITION_KEYS_KEY, indexName),
     err |-> IF reg.err # NoError THEN reg.err ELSE r.err]
WithIndexSortKey(c, prop, indexName, name, reg) ==
    LET r == IndexSortKeyDecorator(reg.md, reg.hp, c, prop, indexName, name) IN
    [md |-> r.md, hp |-> r.hp,
     decl |-> Applied(reg.decl, r.err, c, DYNAMO_INDEX_SORT_KEYS_KEY, indexName),
     err |-> IF reg.err # NoError THEN reg.err ELSE r.err]

Unloaded == Registry(EmptyMetadata, EmptyHeap)
\* class Base {}
Undecorated == Unloaded
\* @DynamoTable() class Base { @PartitionKey() p }
EntityPKOnly ==
    WithTable("Base", Undefined, WithPartitionKey("Base", <<"p">>, Undefined, Unloaded))
\* @DynamoTable("T") class Base { @PartitionKey() p; @SortKey() s }
TestEntity ==
    WithTable("Base", <<"T">>,
        WithSortKey("Base", <<"s">>, Undefined,
            WithPartitionKey("Base", <<"p">>, Undefined, Unloaded)))
\* @DynamoTable("T") class Base { @PartitionKey() p; @SortKey("") s }
EntityBlankSortKey ==
    WithTable("Base", <<"T">>,
        WithSortKey("Base", <<"s">>, EmptyStr,
            WithPartitionKey("Base", <<"p">>, Undefined, Unloaded)))
\* @DynamoTable("T") class Base { @PartitionKey() p }: no sort key declared
\* for a table that has one
EntityPKOnlyOnT ==
    WithTable("Base", <<"T">>, WithPartitionKey("Base", <<"p">>, Undefined, Unloaded))

\* @DynamoTable("T") class Base { @PartitionKey("") p }
EntityBlankPartitionKey ==
    WithTable("Base", <<"T">>, WithPartitionKey("Base", <<"p">>, EmptyStr, Unloaded))

\* class Base { @PartitionKey() p }: no @DynamoTable
EntityWithoutTable == WithPartitionKey("Base", <<"p">>, Undefined, Unloaded)
\* @DynamoTable("T") class Base {}
EntityWithoutPK == WithTable("Base", <<"T">>, Unloaded)
\* @DynamoTable("T") class Base { @PartitionKey() p;
\*    @SortKey() @IndexPartitionKey("E") s; @IndexSortKey("E") v }
EntityWithIndex ==
    WithTable("Base", <<"T">>,
        WithIndexSortKey("Base", <<"v">>, <<"E">>, Undefined,
            WithIndexPartitionKey("Base", <<"s">>, <<"E">>, Undefined,
                WithSortKey("Base", <<"s">>, Undefined,
                    WithPartitionKey("Base", <<"p">>, Undefined, Unloaded)))))
\* @DynamoTable("T") class Base { @IndexPartitionKey("E") s;
\*    @IndexSortKey("E") v }: keys for the index, none for the table
EntityIndexOnly ==
    WithTable("Base", <<"T">>,
        WithIndexSortKey("Base", <<"v">>, <<"E">>, Undefined,
            WithIndexPartitionKey("Base", <<"s">>, <<"E">>, Undefined, Unloaded)))

\* @DynamoTable("T") class Base { @PartitionKey() p;
\*    @SortKey() @IndexPartitionKey("E", "") s; @IndexSortKey("E") v }
EntityBlankIndexKey ==
    WithTable("Base", <<"T">>,
        WithIndexSortKey("Base", <<"v">>, <<"E">>, Undefined,
            WithIndexPartitionKey("Base", <<"s">>, <<"E">>, EmptyStr,
                WithSortKey("Base", <<"s">>, Undefined,
                    WithPartitionKey("Base", <<"p">>, Undefined, Unloaded)))))

\* @DynamoTable("T") class Base { @PartitionKey() p; @IndexSortKey("E") v }
\* class Sub extends Base { @IndexSortKey("G") s }
EntitySubIndex ==
    WithIndexSortKey("Sub", <<"s">>, <<"G">>, Undefined,
        WithTable("Base", <<"T">>,
            WithIndexSortKey("Base", <<"v">>, <<"E">>, Undefined,
                WithPartitionKey("Base", <<"p">>, Undefined, Unloaded))))

Programs ==
    {Undecorated, EntityPKOnly, TestEntity, EntityBlankSortKey, EntityPKOnlyOnT,
     EntityBlankPartitionKey, EntityWithoutTable, EntityWithoutPK, EntityWithIndex,
     EntityIndexOnly, EntityBlankIndexKey, EntitySubIndex}

InitRegistry ==
    /\ metadata = EmptyMetadata
    /\ heap = EmptyHeap
    /\ declared = {}
    /\ store = [t \in Tables |-> {}]
    /\ pending = NoPending
    /\ lastPut = NoPut
    /\ last = NoCall

Init ==
    /\ \E program \in Programs :
          /\ program.err = NoError
          /\ metadata = program.md
          /\ heap = program.hp
          /\ declared = program.decl
    /\ store = [t \in Tables |-> {}]
    /\ pending = NoPending
    /\ lastPut = NoPut
    /\ last = NoCall

repository == <<store, pending, lastPut>>
registry == <<metadata, heap, declared>>

----------------------------------------------------------------------------
(* Actions: applying a decorator *)

DynamoTable(c, tableName) ==
    LET r == DynamoTableDecorator(metadata, c, tableName) IN
    /\ Idle
    /\ WithinBound(r.err)
    /\ metadata' = r.md
    /\ declared' = Applied(declared, r.err, c, DYNAMO_TABLE_NAME_KEY, Undefined)
    /\ last' = Declared("DynamoTable", c, DeclArgs(Undefined, Undefined, tableName), r.err)
    /\ UNCHANGED <<heap, repository>>

PartitionKey(c, propertyKey, fieldName) ==
    LET r == PartitionKeyDecorator(metadata, c, propertyKey, fieldName) IN
    /\ Idle
    /\ WithinBound(r.err)
    /\ metadata' = r.md
    /\ declared' = Applied(declared, r.err, c, DYNAMO_PARTITION_KEY_KEY, Undefined)
    /\ last' = Declared("PartitionKey", c, DeclArgs(propertyKey, Undefined, fieldName), r.err)
    /\ UNCHANGED <<heap, repository>>

SortKey(c, propertyKey, fieldName) ==
    LET r == SortKeyDecorator(metadata, c, propertyKey, fieldName) IN
    /\ Idle
    /\ WithinBound(r.err)
    /\ metadata' = r.md
    /\ declared' = Applied(declared, r.err, c, DYNAMO_SORT_KEY_KEY, Undefined)
    /\ last' = Declared("SortKey", c, DeclArgs(propertyKey, Undefined, fieldName), r.err)
    /\ UNCHANGED <<heap, repository>>

IndexPartitionKey(c, propertyKey, indexName, fieldName) ==
    LET r == IndexPartitionKeyDecorator(metadata, heap, c, propertyKey, indexName, fieldName) IN
    /\ Idle
    /\ WithinBound(r.err)
    /\ metadata' = r.md
    /\ declared' = Applied(declared, r.err, c, DYNAMO_INDEX_PARTITION_KEYS_KEY, indexName)
    /\ heap' = r.hp
    /\ last' = Declared("IndexPartitionKey", c, DeclArgs(propertyKey, indexName, fieldName), r.err)
    /\ UNCHANGED repository

IndexSortKey(c, propertyKey, indexName, fieldName) ==
    LET r == IndexSortKeyDecorator(metadata, heap, c, propertyKey, indexName, fieldName) IN
    /\ Idle
    /\ WithinBound(r.err)
    /\ metadata' = r.md
    /\ declared' = Applied(declared, r.err, c, DYNAMO_INDEX_SORT_KEYS_KEY, indexName)
    /\ heap' = r.hp
    /\ last' = Declared("IndexSortKey", c, DeclArgs(propertyKey, indexName, fieldName), r.err)
    /\ UNCHANGED repository

(* Actions: calling a helper function *)

GetDynamoTableName(c) ==
    /\ Idle
    /\ last' = Resolved("getDynamoTableName", c, Undefined,
                        Returned(getDynamoTableName(metadata, c)))
    /\ UNCHANGED <<registry, repository>>

GetPartitionKeyName(c) ==
    /\ Idle
    /\ last' = Resolved("getPartitionKeyName", c, Undefined,
                        Returned(getPartitionKeyName(metadata, c)))
    /\ UNCHANGED <<registry, repository>>

GetSortKeyName(c) ==
    /\ Idle
    /\ last' = Resolved("getSortKeyName", c, Undefined,
                        Returned(getSortKeyName(metadata, c)))
    /\ UNCHANGED <<registry, repository>>

GetIndexPartitionKeyName(c, indexName) ==
    /\ Idle
    /\ last' = Resolved("getIndexPartitionKeyName", c, indexName,
                        getIndexPartitionKeyName(metadata, heap, c, indexName))
    /\ UNCHANGED <<registry, repository>>

GetIndexSortKeyName(c, indexName) ==
    /\ Idle
    /\ last' = Resolved("getIndexSortKeyName", c, indexName,
                        getIndexSortKeyName(metadata, heap, c, indexName))
    /\ UNCHANGED <<registry, repository>>

(* Actions: calling a repository method *)

\* Inputs of the repository methods.
PkArgs == PkValues
SkArgs == SkValues \cup {Undefined}
FaultArgs == Faults \cup {NoError}

ItemArg(item) == [item |-> item]
KeyArgs(pk, sk) == [pk |-> pk, sk |-> sk]

\* A method that threw before it sent anything.
Threw(op, c, args, err) == Call(op, c, args, err, Undefined, UndefinedItem, <<>>)

\* The softDelete in progress, once a write of another caller has been
\* answered by the store: overtaken if the write succeeded on the key read.
Overtaken(op, item, tableName, key, err) ==
    IF /\ pending # NoPending
       /\ err = NoError
       /\ tableName = pending.reqs[1].TableName
       /\ key = pending.reqs[1].Key
    THEN [pending EXCEPT !.overtaken = Overtake(op, item)]
    ELSE pending

Create(c, item, fault) ==
    LET prep == createPrepare(metadata, heap, c, item)
        resp == Send(store, prep.req, fault)
        res == writeResult(resp, item)
    IN
    /\ Idle
    /\ IF prep.err # NoError
       THEN /\ last' = Threw("create", c, ItemArg(item), prep.err)
            /\ UNCHANGED <<store, lastPut>>
       ELSE /\ store' = resp.store
            /\ lastPut' = IF resp.err = NoError THEN NoPut ELSE lastPut
            /\ last' = Call("create", c, ItemArg(item), res.err, Undefined,
                            res.item, <<prep.req>>)
    /\ UNCHANGED <<registry, pending>>

GetItem(c, pk, sk, fault) ==
    LET prep == getItemPrepare(metadata, heap, c, pk, sk)
        resp == Send(store, prep.req, fault)
        res == getItemResult(resp)
    IN
    /\ Idle
    /\ IF prep.err # NoError
       THEN last' = Threw("getItem", c, KeyArgs(pk, sk), prep.err)
       ELSE last' = Call("getItem", c, KeyArgs(pk, sk), res.err, Undefined,
                         res.item, <<prep.req>>)
    /\ UNCHANGED <<registry, repository>>

Put(c, item, fault) ==
    LET prep == putPrepare(metadata, c, item)
        resp == Send(store, prep.req, fault)
        res == writeResult(resp, item)
    IN
    /\ Idle
    /\ IF prep.err # NoError
       THEN /\ last' = Threw("put", c, ItemArg(item), prep.err)
            /\ UNCHANGED <<store, lastPut, pending>>
       ELSE /\ store' = resp.store
            /\ lastPut' = IF resp.err = NoError THEN [cls |-> c, item |-> item]
                          ELSE lastPut
            /\ pending' = Overtaken("put", item, prep.req.TableName,
                              KeyOf(prep.req.TableName, item), resp.err)
            /\ last' = Call("put", c, ItemArg(item), res.err, Undefined,
                            res.item, <<prep.req>>)
    /\ UNCHANGED registry

Remove(c, pk, sk, fault) ==
    LET prep == removePrepare(metadata, heap, c, pk, sk)
        resp == Send(store, prep.req, fault)
    IN
    /\ Idle
    /\ IF prep.err # NoError
       THEN /\ last' = Threw("remove", c, KeyArgs(pk, sk), prep.err)
            /\ UNCHANGED <<store, lastPut, pending>>
       ELSE /\ store' = resp.store
            /\ lastPut' = IF resp.err = NoError THEN NoPut ELSE lastPut
            /\ pending' = Overtaken("remove", UndefinedItem, prep.req.TableName,
                              prep.req.Key, resp.err)
            /\ last' = Call("remove", c, KeyArgs(pk, sk), resp.err, Undefined,
                            UndefinedItem, <<prep.req>>)
    /\ UNCHANGED registry

\* Inputs of query: every sort value with every comparator and index name,
\* and the ordering flag and the result cap, given or left out.
SortValueArgs == {Undefined, <<"a">>, EmptyStr, Zero}
ComparatorArgs ==
    {NoComparator, "=", ">", "<", ">=", "<=", "BETWEEN", "begins_with"}
QueryIndexArgs == {Undefined, EmptyStr, Blanks, <<"E">>, <<"G">>}
QueryArgs ==
    {QueryOptions(pk, sk, cmp, i, Undefined, Undefined) :
        pk \in PkArgs, sk \in SortValueArgs, cmp \in ComparatorArgs,
        i \in QueryIndexArgs}
    \cup {QueryOptions(pk, sk, NoComparator, Undefined, <<"false">>, One) :
        pk \in PkArgs, sk \in SortValueArgs}

\* A response that is a failure has no count to leave out.
CountArgs(fault) == IF fault = NoError THEN BOOLEAN ELSE {TRUE}

Query(c, options, fault, counted) ==
    LET prep == queryPrepare(metadata, heap, c, options)
        resp == Counted(Send(store, prep.req, fault), counted)
        res == queryResult(resp)
    IN
    /\ Idle
    /\ IF prep.err # NoError
       THEN last' = Threw("query", c, options, prep.err)
       ELSE last' = [Call("query", c, options, res.err, Undefined,
                          UndefinedItem, <<prep.req>>)
                        EXCEPT !.result = res.result]
    /\ UNCHANGED <<registry, repository>>

\* A variant that leaves the item as it was read.
markDeleted_Nothing(item, now) == item

\* item["deletedAt"] = new Date().toISOString()
markDeleted(item, now) == [item EXCEPT !.attrs[DeletedAt] = now]

\* softDelete up to the end of `await this.getItem(pk, sk)`: it fails there,
\* or holds the item read until its write.
SoftDeleteRead(c, pk, sk, fault) ==
    LET prep == getItemPrepare(metadata, heap, c, pk, sk)
        resp == Send(store, prep.req, fault)
        res == getItemResult(resp)
    IN
    /\ Idle
    /\ pending = NoPending
    /\ IF prep.err # NoError
       THEN /\ last' = Threw("softDelete", c, KeyArgs(pk, sk), prep.err)
            /\ UNCHANGED pending
       ELSE IF res.err # NoError
       THEN /\ last' = Call("softDelete", c, KeyArgs(pk, sk), res.err, Undefined,
                            UndefinedItem, <<prep.req>>)
            /\ UNCHANGED pending
       ELSE /\ pending' = [cls |-> c, pk |-> pk, sk |-> sk, item |-> res.item,
                           reqs |-> <<prep.req>>, overtaken |-> NoOvertake]
            /\ UNCHANGED last
    /\ UNCHANGED <<registry, store, lastPut>>

\* The rest of softDelete: item.deletedAt = new Date().toISOString();
\* await this.put(item).
SoftDeleteWrite(now, fault) ==
    LET item == markDeleted(pending.item, now)
        args == KeyArgs(pending.pk, pending.sk)
        prep == putPrepare(metadata, pending.cls, item)
        resp == Send(store, prep.req, fault)
    IN
    /\ Idle
    /\ pending # NoPending
    /\ pending' = NoPending
    /\ IF prep.err # NoError
       THEN /\ last' = [Call("softDelete", pending.cls, args, prep.err, Undefined,
                             UndefinedItem, pending.reqs)
                           EXCEPT !.overtaken = pending.overtaken]
            /\ UNCHANGED <<store, lastPut>>
       ELSE /\ store' = resp.store
            /\ lastPut' = IF resp.err = NoError THEN NoPut ELSE lastPut
            /\ last' = [Call("softDelete", pending.cls, args, resp.err, Undefined,
                             UndefinedItem, Append(pending.reqs, prep.req))
                           EXCEPT !.overtaken = pending.overtaken]
    /\ UNCHANGED registry

\* The caller takes the outcome of the call (the value returned or the error
\* thrown) and is free to make the next call.
Return ==
    /\ ~Idle
    /\ last' = NoCall
    /\ UNCHANGED <<registry, repository>>

----------------------------------------------------------------------------
(* Specifications *)

\* The caller makes a call only once the call before has returned to it
\* (each call below starts from Idle).
Declare ==
    \/ Idle /\ \E c \in Classes, n \in TableArgs : DynamoTable(c, n)
    \/ Idle /\ \E c \in Classes, p \in PropertyKeys, n \in NameArgs : PartitionKey(c, p, n)
    \/ Idle /\ \E c \in Classes, p \in PropertyKeys, n \in NameArgs : SortKey(c, p, n)
    \/ Idle /\ \E c \in Classes, p \in PropertyKeys, i \in IndexArgs, n \in NameArgs :
          IndexPartitionKey(c, p, i, n)
    \/ Idle /\ \E c \in Classes, p \in PropertyKeys, i \in IndexArgs, n \in NameArgs :
          IndexSortKey(c, p, i, n)

Resolve ==
    \/ Idle /\ \E c \in Classes : GetDynamoTableName(c)
    \/ Idle /\ \E c \in Classes : GetPartitionKeyName(c)
    \/ Idle /\ \E c \in Classes : GetSortKeyName(c)
    \/ Idle /\ \E c \in Classes, i \in IndexArgs : GetIndexPartitionKeyName(c, i)
    \/ Idle /\ \E c \in Classes, i \in IndexArgs : GetIndexSortKeyName(c, i)

Operate ==
    \/ Idle /\ \E c \in Classes, x \in ItemArgs, f \in FaultArgs : Create(c, x, f)
    \/ Idle /\ \E c \in Classes, pk \in PkArgs, sk \in SkArgs, f \in FaultArgs :
          GetItem(c, pk, sk, f)
    \/ Idle /\ \E c \in Classes, x \in ItemArgs, f \in FaultArgs : Put(c, x, f)
    \/ Idle /\ \E c \in Classes, pk \in PkArgs, sk \in SkArgs, f \in FaultArgs :
          Remove(c, pk, sk, f)
    \/ Idle /\ \E c \in Classes, pk \in PkArgs, sk \in SkArgs, f \in FaultArgs :
          SoftDeleteRead(c, pk, sk, f)
    \/ Idle /\ \E now \in Timestamps, f \in FaultArgs : SoftDeleteWrite(now, f)
    \/ Idle /\ \E c \in Classes, o \in QueryArgs, f \in FaultArgs :
          \E k \in CountArgs(f) : Query(c, o, f, k)

\* Point reads through a repository of the class, as the registry stands.
Read ==
    Idle /\ \E c \in Classes, pk \in PkArgs, sk \in SkArgs, f \in FaultArgs :
        GetItem(c, pk, sk, f)

NextRegistry == Declare \/ Resolve \/ Read \/ Return

\* The metadata registry from the module's load: declarations, resolutions
\* and repository reads in any order, over a store that holds no record.
SpecRegistry == InitRegistry /\ [][NextRegistry]_vars

Next == Operate \/ Return

\* Repositories over the entity classes a program has defined.
Spec == Init /\ [][Next]_vars

----------------------------------------------------------------------------
(* Vocabulary of the properties *)

\* The step is a call of the method op: the caller was free, and the call
\* the step completes is of op.
CallOf(ops) == Idle /\ last'.op \in ops

ScalarDecorators == {"PartitionKey", "SortKey"}
IndexDecorators == {"IndexPartitionKey", "IndexSortKey"}
Decorators == {"DynamoTable"} \cup ScalarDecorators \cup IndexDecorators
IndexHelpers == {"getIndexPartitionKeyName", "getIndexSortKeyName"}

\* The metadata key a decorator or a helper function is about.
KeyFor(op) ==
    CASE op \in {"DynamoTable", "getDynamoTableName"} -> DYNAMO_TABLE_NAME_KEY
      [] op \in {"PartitionKey", "getPartitionKeyName"} -> DYNAMO_PARTITION_KEY_KEY
      [] op \in {"SortKey", "getSortKeyName"} -> DYNAMO_SORT_KEY_KEY
      [] op \in {"IndexPartitionKey", "getIndexPartitionKeyName"} ->
            DYNAMO_INDEX_PARTITION_KEYS_KEY
      [] op \in {"IndexSortKey", "getIndexSortKeyName"} ->
            DYNAMO_INDEX_SORT_KEYS_KEY

\* An explicitly supplied name that is empty or only whitespace.
BlankName(n) == n # Undefined /\ Trim(n) = EmptyStr

IsDuplicateError(e) == e.name = "DuplicateDecoratorError"
\* The configuration errors: `Invalid <param>: cannot be an empty string.`
\* and `indexName cannot be empty`.
IsConfigurationError(e) ==
    \/ e \in {InvalidStringError(w) : w \in {"tableName", "fieldName", "indexName"}}
    \/ e = IndexNameEmptyError

\* What the class resolves to under an index name, Undefined if nothing.
IndexField(md, hp, c, op, indexName) ==
    IndexLookup(md, hp, c, KeyFor(op), indexName).value

\* The store is faithful to the entity class: the class's table is a table
\* of the store, keyed by the class's declared partition and sort key.
TableOf(c) == getDynamoTableName(metadata, c)
HashKeyDeclared(c) ==
    /\ TableOf(c) \in Tables
    /\ getPartitionKeyName(metadata, c) = KeySchema(TableOf(c)).hash
KeysDeclared(c) ==
    /\ HashKeyDeclared(c)
    /\ getSortKeyName(metadata, c) = KeySchema(TableOf(c)).range
HasKey(t, x) == ~IsAbsent(x) /\ \A a \in KeyAttrs(t) : Attr(x, a) # Undefined

----------------------------------------------------------------------------
(* Properties *)

\* C1: against a store that enforces the write condition, on a table keyed
\* by the class's declared partition key and raising no failure of its own,
\* create(x) on a key that holds a record fails with the store's
\* ConditionalCheckFailedException and leaves the table as it was, and
\* create(x) on a free key stores x and returns x.
C1_CreateConditional ==
    [][CallOf({"create"}) =>
        LET c == last'.cls
            x == last'.args.item
            t == TableOf(c)
        IN  (HashKeyDeclared(c) /\ HasKey(t, x) /\ last'.err \notin Faults) =>
               IF ~IsAbsent(Stored(store, t, KeyOf(t, x)))
               THEN last'.err = ConditionalCheckFailed /\ store' = store
               ELSE /\ last'.err = NoError
                    /\ last'.item = x
                    /\ store' = [store EXCEPT ![t] = @ \cup {x}]]_vars

\* create was refused by the store's condition, and the record that was
\* there, another one than the item given, is still there.
C1_Witness ==
    /\ last.op = "create"
    /\ last.err = ConditionalCheckFailed
    /\ \E x \in store[TableOf(last.cls)] :
          /\ x # last.args.item
          /\ KeyOf(TableOf(last.cls), x) = KeyOf(TableOf(last.cls), last.args.item)

\* C2 as stated: once a class has its partition (sort) key, every further
\* partition-key (sort-key) declaration on it raises DuplicateDecoratorError.
C2_Original ==
    [][(CallOf(ScalarDecorators) /\ metadata[last'.cls][KeyFor(last'.op)] # Undefined)
          => IsDuplicateError(last'.err)]_vars

\* C2 amended: once a class has its partition (sort) key, every further
\* partition-key (sort-key) declaration on it throws as it is applied and
\* records nothing: DuplicateDecoratorError, except that a name supplied as
\* whitespace only is refused first, with the configuration error.
C2_DuplicateKey ==
    [][(CallOf(ScalarDecorators) /\ metadata[last'.cls][KeyFor(last'.op)] # Undefined)
          => /\ IF Truthy(last'.args.name) /\ BlankName(last'.args.name)
                THEN last'.err = InvalidStringError("fieldName")
                ELSE IsDuplicateError(last'.err)
             /\ UNCHANGED registry]_vars

\* A second partition key was declared on a class, under another property
\* than the one recorded, and was refused as a duplicate.
C2_Witness ==
    /\ last.op = "PartitionKey"
    /\ IsDuplicateError(last.err)
    /\ metadata[last.cls][DYNAMO_PARTITION_KEY_KEY] \notin {Undefined, last.args.prop}
    /\ last.args.name = Undefined

C4_Original ==
    [][\A c \in Classes :
        metadata[c][DYNAMO_TABLE_NAME_KEY] # Undefined =>
           /\ getDynamoTableName(metadata', c) = getDynamoTableName(metadata, c)
           /\ (CallOf({"DynamoTable"}) /\ last'.cls = c)
                 => IsDuplicateError(last'.err)]_vars

\* C4 amended: once @DynamoTable has succeeded on a class,
\* getDynamoTableName of the class returns the same name after every step
\* (declarations, resolutions, repository reads), and every further
\* @DynamoTable on the class throws: DuplicateDecoratorError, except that a
\* name supplied as whitespace only is refused first, with the
\* configuration error.
C4_TableNameImmutable ==
    [][\A c \in Classes :
        metadata[c][DYNAMO_TABLE_NAME_KEY] # Undefined =>
           /\ getDynamoTableName(metadata', c) = getDynamoTableName(metadata, c)
           /\ (CallOf({"DynamoTable"}) /\ last'.cls = c) =>
                 IF Truthy(last'.args.name) /\ BlankName(last'.args.name)
                 THEN last'.err = InvalidStringError("tableName")
                 ELSE IsDuplicateError(last'.err)]_vars

\* A class with a table name was given @DynamoTable again, with a
\* well-formed name other than the one it has, and the declaration threw.
C4_Witness ==
    /\ last.op = "DynamoTable"
    /\ IsDuplicateError(last.err)
    /\ Truthy(last.args.name)
    /\ getDynamoTableName(metadata, last.cls) \notin {Undefined, last.args.name}
    /\ metadata[last.cls][DYNAMO_TABLE_NAME_KEY] # Undefined

\* C5: getItem never returns an absent value; when the store's read reports
\* no item under the key getItem throws ItemNotFoundError, and when it
\* reports an item getItem returns that item.
C5_GetItemNeverAbsent ==
    last.op = "getItem" =>
        /\ last.err = NoError => ~IsAbsent(last.item)
        /\ (Len(last.reqs) = 1 /\ last.err \notin Faults) =>
              LET response == Send(store, last.reqs[1], NoError) IN
              response.err = NoError =>
                 IF IsAbsent(response.Item)
                 THEN last.err = ItemNotFoundError
                 ELSE last.err = NoError /\ last.item = response.Item

\* getItem read a key that holds nothing and threw ItemNotFoundError.
C5_Witness ==
    /\ last.op = "getItem"
    /\ Len(last.reqs) = 1
    /\ last.err = ItemNotFoundError
    /\ store[last.reqs[1].TableName] = {}

\* The key of item x as the class declares it: pk(x), sk(x).
KeyArgsOf(c, x) ==
    KeyArgs(Attr(x, getPartitionKeyName(metadata, c)),
            IF getSortKeyName(metadata, c) = Undefined THEN Undefined
            ELSE Attr(x, getSortKeyName(metadata, c)))

\* C6: against a store faithful to the class that raises no failure of its
\* own, once put(x) has succeeded and until the next write, getItem(pk(x),
\* sk(x)) on the same repository returns x.
C6_PutGetRoundTrip ==
    (/\ last.op = "getItem"
     /\ lastPut.cls = last.cls
     /\ KeysDeclared(last.cls)
     /\ last.args = KeyArgsOf(last.cls, lastPut.item)
     /\ last.err \notin Faults)
        => last.err = NoError /\ last.item = lastPut.item

\* getItem, given the composite key of the item of the last put, returned
\* that item.
C6_Witness ==
    /\ last.op = "getItem"
    /\ lastPut.cls = last.cls
    /\ KeysDeclared(last.cls)
    /\ last.args = KeyArgsOf(last.cls, lastPut.item)
    /\ last.args.sk # Undefined
    /\ last.err = NoError
    /\ last.item = lastPut.item

\* C7 as stated: the request of create carries the condition on both keys,
\* with aliases #pk and #sk, when the class has a declared sort key, and the
\* condition on the partition key alone, with alias #pk, when it has none.
C7_Original ==
    (last.op = "create" /\ Len(last.reqs) = 1) =>
        LET request == last.reqs[1]
            pkName == getPartitionKeyName(metadata, last.cls)
            skName == getSortKeyName(metadata, last.cls)
        IN  IF skName # Undefined
            THEN /\ Text(request.ConditionExpression)
                       = "attribute_not_exists(#pk) AND attribute_not_exists(#sk)"
                 /\ request.ExpressionAttributeNames
                       = ("#pk" :> pkName) @@ ("#sk" :> skName)
            ELSE /\ Text(request.ConditionExpression) = "attribute_not_exists(#pk)"
                 /\ request.ExpressionAttributeNames = ("#pk" :> pkName)

\* C8 as stated: create and put of an absent item throw
\* InvalidParametersError and send nothing.
C8_Original ==
    (last.op \in {"create", "put"} /\ IsAbsent(last.args.item)) =>
        last.err.name = "InvalidParametersError" /\ last.reqs = <<>>

\* C9 as stated: a declaration given an explicit name that is empty or only
\* whitespace throws a configuration error and records nothing.
C9_Original ==
    [][(CallOf(Decorators) /\ BlankName(last'.args.name))
          => IsConfigurationError(last'.err) /\ UNCHANGED registry]_vars

\* C10: an index key declaration and an index key resolution given an index
\* name that is empty or only whitespace throw a configuration error; the
\* declaration records nothing.
C10_BlankIndexName ==
    [][(CallOf(IndexDecorators \cup IndexHelpers) /\ BlankName(last'.args.index))
          => /\ IsConfigurationError(last'.err)
             /\ last'.ret = Undefined
             /\ UNCHANGED registry]_vars

\* An index sort key was declared under an index name of blanks, with a
\* well-formed field name, and the declaration threw.
C10_Witness ==
    /\ last.op = "IndexSortKey"
    /\ last.args.index = Blanks
    /\ last.args.name = <<"s">>
    /\ last.err = InvalidStringError("indexName")

----------------------------------------------------------------------------
(* Properties of resolution *)

Helpers ==
    {"getDynamoTableName", "getPartitionKeyName", "getSortKeyName"} \cup IndexHelpers

\* The class and the classes it extends.
RECURSIVE SelfAndAncestors(_)
SelfAndAncestors(c) ==
    IF c = NoClass THEN {} ELSE {c} \cup SelfAndAncestors(Parent(c))

\* A declaration of the kind (for the index) was applied with success to
\* the class or to a class it extends.
DeclaredFor(c, key, indexName) ==
    \E a \in SelfAndAncestors(c) : Declaration(a, key, indexName) \in declared

\* C11 as stated: a helper called for a class to which (and to whose
\* superclasses) nothing of its kind, for its index, was declared returns
\* undefined and throws nothing; the index helpers are given a non-blank
\* index name.
C11_Original ==
    [][(/\ CallOf(Helpers)
        /\ ~BlankName(last'.args.index)
        /\ ~DeclaredFor(last'.cls, KeyFor(last'.op), last'.args.index))
          => last'.err = NoError /\ last'.ret = Undefined]_vars

\* What the helper of a declaration kind gives for the class (and index).
ResolvedName(md, hp, c, op, indexName) ==
    CASE KeyFor(op) = DYNAMO_TABLE_NAME_KEY -> Returned(getDynamoTableName(md, c))
      [] KeyFor(op) = DYNAMO_PARTITION_KEY_KEY -> Returned(getPartitionKeyName(md, c))
      [] KeyFor(op) = DYNAMO_SORT_KEY_KEY -> Returned(getSortKeyName(md, c))
      [] KeyFor(op) = DYNAMO_INDEX_PARTITION_KEYS_KEY ->
            getIndexPartitionKeyName(md, hp, c, indexName)
      [] KeyFor(op) = DYNAMO_INDEX_SORT_KEYS_KEY ->
            getIndexSortKeyName(md, hp, c, indexName)

\* C12: a declaration that succeeds records the name it was given, or, given
\* none, the name of the property it decorates (for @DynamoTable the name of
\* the class), and the helper of its kind returns that name for the class.
C12_RecordedName ==
    [][(CallOf(Decorators) /\ last'.err = NoError) =>
        LET c == last'.cls
            default == IF last'.op = "DynamoTable" THEN ClassName(c)
                       ELSE last'.args.prop
            expected == IF last'.args.name # Undefined THEN last'.args.name
                        ELSE default
        IN  ResolvedName(metadata', heap', c, last'.op, last'.args.index)
               = Returned(expected)]_vars

\* A sort key was declared on property p under the explicit name s, and the
\* class resolves its sort key to s.
C12_Witness ==
    /\ last.op = "SortKey"
    /\ last.err = NoError
    /\ last.args.prop = <<"p">>
    /\ last.args.name = <<"s">>
    /\ getSortKeyName(metadata, last.cls) = <<"s">>

----------------------------------------------------------------------------
(* Properties of the point operations *)

IsMissingDeclaration(e) == e.name = "DecoratorMissingError"

\* The class has a partition key declared and no sort key.
DeclaresOnlyPartitionKey(c) ==
    /\ getPartitionKeyName(metadata, c) # Undefined
    /\ getSortKeyName(metadata, c) = Undefined

\* C13 as stated: on a class that declares a partition key and no sort key,
\* getItem and remove called without a sort value send a request whose key
\* map is the partition key entry alone (the table name resolving), and
\* called with a sort value throw DecoratorMissingError and send nothing.
C13_Original ==
    (last.op \in {"getItem", "remove"} /\ DeclaresOnlyPartitionKey(last.cls)) =>
        IF last.args.sk = Undefined
        THEN Truthy(TableOf(last.cls)) =>
                /\ Len(last.reqs) = 1
                /\ last.reqs[1].Key
                      = (getPartitionKeyName(metadata, last.cls) :> last.args.pk)
        ELSE IsMissingDeclaration(last.err) /\ last.reqs = <<>>

----------------------------------------------------------------------------
(* Properties of the repository's resolution of names *)

Operations == {"create", "getItem", "put", "softDelete", "remove", "query"}
KeyedOperations == Operations \ {"put"}

\* The call threw DecoratorMissingError before it sent anything.
FailedMissingDeclaration ==
    IsMissingDeclaration(last.err) /\ last.reqs = <<>>

ItemGiven == last.op \in {"create", "put"} => ~IsAbsent(last.args.item)

\* The index name a query names, Undefined if it names none ("" is none).
QueriedIndex ==
    IF last.op = "query" /\ Truthy(last.args.indexName) THEN last.args.indexName
    ELSE Undefined

----------------------------------------------------------------------------
(* Properties of query *)

\* A query that sent its request.
QuerySent == last.op = "query" /\ Len(last.reqs) = 1

\* The key names query resolves for the index it is given.
QueryPKName == getPKName(metadata, heap, last.cls, last.args.indexName).value
QuerySKName == getSKName(metadata, heap, last.cls, last.args.indexName).value

\* The expression and bindings on the partition key alone.
PartitionOnly(built, pkName, pk) ==
    /\ Text(built.keyConditionExpression) = "#pk = :pkValue"
    /\ built.expressionAttributeNames = ("#pk" :> pkName)
    /\ built.expressionAttributeValues = (":pkValue" :> pk)

\* C15: a query given no sort value sends the key condition
\* '#pk = :pkValue' with #pk bound to the partition key name and :pkValue
\* to the partition value and nothing bound for the sort key, whatever
\* comparator it is given; and buildQueryExpressions given no sort value
\* builds just that, whatever comparator and sort key name it is given.
C15_PartitionOnly ==
    (QuerySent /\ last.args.sk = Undefined) =>
        /\ PartitionOnly(
              [keyConditionExpression |-> last.reqs[1].KeyConditionExpression,
               expressionAttributeNames |-> last.reqs[1].ExpressionAttributeNames,
               expressionAttributeValues |-> last.reqs[1].ExpressionAttributeValues],
              QueryPKName, last.args.pk)
        /\ \A skName \in {Undefined, EmptyStr, <<"s">>},
              cmp \in ComparatorArgs \ {NoComparator} :
              PartitionOnly(
                 buildQueryExpressions(last.args.pk, QueryPKName, Undefined,
                                       skName, cmp),
                 QueryPKName, last.args.pk)

\* A query with comparator > and no sort value, on a class that has a sort
\* key, sent its request.
C15_Witness ==
    /\ QuerySent
    /\ last.args.sk = Undefined
    /\ last.args.skComparator = ">"
    /\ getSortKeyName(metadata, last.cls) = <<"s">>
    /\ Text(last.reqs[1].KeyConditionExpression) = "#pk = :pkValue"

\* The comparator a query uses: "=" when it is given none.
QueryComparator ==
    IF last.args.skComparator = NoComparator THEN "=" ELSE last.args.skComparator

\* The request carries the sort key condition of the comparator, and the
\* bindings of both keys.
SortConditionSent(request, skName) ==
    /\ QueryComparator = "begins_with" =>
          Text(request.KeyConditionExpression)
             = "#pk = :pkValue AND begins_with(#sk, :skValue)"
    /\ QueryComparator \in {"=", ">", "<", ">=", "<="} =>
          Text(request.KeyConditionExpression)
             = "#pk = :pkValue AND #sk " \o QueryComparator \o " :skValue"
    /\ request.ExpressionAttributeNames
          = ("#pk" :> QueryPKName) @@ ("#sk" :> skName)
    /\ request.ExpressionAttributeValues
          = (":pkValue" :> last.args.pk) @@ (":skValue" :> last.args.sk)

\* C16 as stated: a query given a sort value (a string, the empty string
\* or 0), on a class that resolves a table name, a partition key and a sort
\* key field, sends the key condition of its comparator (= when it is given
\* none) with #pk, #sk, :pkValue and :skValue bound to the two fields and the
\* two values.
C16_Original ==
    (/\ last.op = "query"
     /\ last.args.sk # Undefined
     /\ Truthy(TableOf(last.cls))
     /\ Truthy(QueryPKName)
     /\ QuerySKName # Undefined)
        => Len(last.reqs) = 1 /\ SortConditionSent(last.reqs[1], QuerySKName)

\* The class (or a class it extends) declares both keys of the index.
DeclaresIndexKeys(c, indexName) ==
    /\ DeclaredFor(c, DYNAMO_INDEX_PARTITION_KEYS_KEY, indexName)
    /\ DeclaredFor(c, DYNAMO_INDEX_SORT_KEYS_KEY, indexName)

\* The request names the partition key field, and the sort key field when
\* the query has a sort value, as given.
KeysBound(request, pkName, skName) ==
    /\ request.ExpressionAttributeNames["#pk"] = pkName
    /\ last.args.sk # Undefined =>
          /\ "#sk" \in DOMAIN request.ExpressionAttributeNames
          /\ request.ExpressionAttributeNames["#sk"] = skName

\* C17 as stated: the request of a query that names an index for which the
\* class declares an index partition key and an index sort key binds #pk and
\* #sk to the fields recorded for the index and carries the index name; the
\* request of a query that names no index binds them to the fields recorded
\* for the table.
C17_Original ==
    QuerySent =>
        LET request == last.reqs[1]
            c == last.cls
            indexName == last.args.indexName
        IN  /\ (indexName # Undefined /\ DeclaresIndexKeys(c, indexName)) =>
                  /\ request.IndexName = indexName
                  /\ KeysBound(request,
                        IndexLookup(metadata, heap, c,
                            DYNAMO_INDEX_PARTITION_KEYS_KEY, indexName).value,
                        IndexLookup(metadata, heap, c,
                            DYNAMO_INDEX_SORT_KEYS_KEY, indexName).value)
            /\ indexName = Undefined =>
                  /\ request.IndexName = Undefined
                  /\ KeysBound(request, getPartitionKeyName(metadata, c),
                               getSortKeyName(metadata, c))

\* An index name of one or more whitespace characters.
WhitespaceName(n) == Truthy(n) /\ Trim(n) = EmptyStr

\* The class (or a class it extends) declares a sort key, for the table or
\* for the index.
DeclaresSortKey(c, indexName) ==
    \/ DeclaredFor(c, DYNAMO_SORT_KEY_KEY, Undefined)
    \/ DeclaredFor(c, DYNAMO_INDEX_SORT_KEYS_KEY, indexName)

\* C18 as stated: a query given a sort value, on a class that declares no
\* sort key for the table and none for the index it names, fails with
\* DecoratorMissingError and sends no request; the index name, if given, is
\* not made of whitespace alone.
C18_Original ==
    (/\ last.op = "query"
     /\ last.args.sk # Undefined
     /\ ~WhitespaceName(last.args.indexName)
     /\ ~DeclaresSortKey(last.cls, last.args.indexName))
        => FailedMissingDeclaration

\* The step is a call of one of the five single-request operations during
\* which the store raises the given failure of its own, or none.
SingleRequestCall(fault) ==
    \/ last'.op = "create" /\ Create(last'.cls, last'.args.item, fault)
    \/ last'.op = "put" /\ Put(last'.cls, last'.args.item, fault)
    \/ last'.op = "getItem" /\ GetItem(last'.cls, last'.args.pk, last'.args.sk, fault)
    \/ last'.op = "remove" /\ Remove(last'.cls, last'.args.pk, last'.args.sk, fault)
    \/ last'.op = "query" /\ \E counted \in CountArgs(fault) :
                                  Query(last'.cls, last'.args, fault, counted)

\* The call sent nothing, or one request that the store answered once, and
\* fails with the store's error if the store answered with one.
Propagated(fault) ==
    /\ Len(last'.reqs) <= 1
    /\ Len(last'.reqs) = 0 => store' = store
    /\ Len(last'.reqs) = 1 =>
          LET resp == Send(store, last'.reqs[1], fault)
          IN  /\ store' = resp.store
              /\ resp.err # NoError => last'.err = resp.err

\* C19: a call of create, getItem, put, remove or query sends at most one
\* request, and when the store fails that request (a failure of its own, a
\* failed condition, a rejected request, an unknown table) the call fails
\* with the store's error itself and the request is not sent again.
C19_StoreErrorPropagated ==
    [][\A fault \in FaultArgs :
          (Idle /\ SingleRequestCall(fault)) => Propagated(fault)]_vars

\* One of the five operations has sent its request and failed with a failure
\* raised by the store.
C19_Witness ==
    /\ last.op \in {"create", "getItem", "put", "remove", "query"}
    /\ Len(last.reqs) = 1
    /\ last.err \in Faults

\* C20: softDelete sends a Get of the key map of its key on the class's
\* table and holds the item the store returns; a softDelete that succeeds
\* has sent two requests, that Get and then a Put on the same table with no
\* condition, of the item held with deletedAt set to a non-empty timestamp
\* and every other attribute as it was read.
C20_ReadThenWrite ==
    [][/\ (pending = NoPending /\ pending' # NoPending) =>
            LET c == pending'.cls
            IN  /\ pending'.reqs =
                      <<GetCommand(TableOf(c),
                          buildKeyMap(metadata, heap, c, pending'.pk, pending'.sk).value)>>
                /\ pending'.item = Send(store, pending'.reqs[1], NoError).Item
                /\ store' = store
       /\ (CallOf({"softDelete"}) /\ last'.err = NoError) =>
            LET c == last'.cls
                written == last'.reqs[2]
            IN  /\ Len(last'.reqs) = 2
                /\ c = pending.cls
                /\ last'.reqs[1] = pending.reqs[1]
                /\ last'.args = KeyArgs(pending.pk, pending.sk)
                /\ written.cmd = "Put"
                /\ written.TableName = TableOf(c)
                /\ written.ConditionExpression = NoExpression
                /\ written.Item.kind = "object"
                /\ Truthy(written.Item.attrs[DeletedAt])
                /\ \A a \in Attrs \ {DeletedAt} :
                      written.Item.attrs[a] = pending.item.attrs[a]
                /\ store' = Send(store, written, NoError).store]_vars

\* A softDelete has succeeded on an item held under a partition and a sort
\* key.
C20_Witness ==
    /\ last.op = "softDelete"
    /\ last.err = NoError
    /\ last.args.sk # Undefined
    /\ Len(last.reqs) = 2

\* The record is the item with deletedAt set to a non-empty timestamp and
\* every other attribute as the item has it.
IsMarked(record, item) ==
    /\ record.kind = "object"
    /\ Truthy(record.attrs[DeletedAt])
    /\ \A a \in Attrs \ {DeletedAt} : record.attrs[a] = item.attrs[a]

\* C21: nothing holds the key between the read and the write of softDelete,
\* and the write takes no account of what happened there: whenever a put or
\* a remove of another caller has succeeded on the key in between and the
\* store raises no failure of its own, softDelete succeeds too and the
\* store then holds, at the key, the item softDelete had read plus
\* deletedAt, whatever the put had written and although the remove had
\* deleted the record.
C21_WriteWins ==
    [][(/\ Idle
        /\ pending # NoPending
        /\ pending.overtaken.op \in {"put", "remove"}
        /\ \E now \in Timestamps : SoftDeleteWrite(now, NoError))
          => /\ last'.err = NoError
             /\ IsMarked(Stored(store', pending.reqs[1].TableName,
                                 pending.reqs[1].Key), pending.item)]_vars

\* A softDelete has succeeded after a put of another caller succeeded on
\* its key between its read and its write, and the store holds the item
\* softDelete wrote, which differs from the item put in an attribute other
\* than deletedAt.
C21_Witness ==
    /\ last.op = "softDelete"
    /\ last.err = NoError
    /\ last.overtaken.op = "put"
    /\ Stored(store, last.reqs[1].TableName, last.reqs[1].Key) = last.reqs[2].Item
    /\ \E a \in Attrs \ {DeletedAt} :
          last.reqs[2].Item.attrs[a] # last.overtaken.item.attrs[a]

C23_Count ==
    [][\A fault \in FaultArgs : \A counted \in CountArgs(fault) :
          (/\ Idle
           /\ last'.op = "query"
           /\ Query(last'.cls, last'.args, fault, counted)
           /\ last'.err = NoError)
             => LET resp == Counted(Send(store, last'.reqs[1], fault), counted)
                IN  /\ resp.Count = NoCount => last'.result.count = 0
                    /\ resp.Count # NoCount => last'.result.count = resp.Count]_vars

\* A query has returned records and the count 0: the response carried the
\* records and no count.
C23_Witness ==
    /\ last.op = "query"
    /\ last.err = NoError
    /\ Len(last.result.items) > 0
    /\ last.result.count = 0

\* C24 as stated: a table declaration on a class, given no name or a name
\* that passes validation, throws DuplicateDecoratorError exactly when a
\* table declaration had succeeded on that very class; and the first table,
\* partition key or sort key declaration on a class succeeds whatever was
\* declared on other classes, its superclass included.
C24_Original ==
    [][(CallOf({"DynamoTable"} \cup ScalarDecorators)
          /\ ~WhitespaceName(last'.args.name))
        => LET own == Declaration(last'.cls, KeyFor(last'.op), Undefined) \in declared
           IN  /\ last'.op = "DynamoTable" => (IsDuplicateError(last'.err) <=> own)
               /\ ~own => last'.err = NoError]_vars

\* C25: a query given the comparator BETWEEN and a sort value, for which a
\* table name, a partition key and a sort key field resolve, sends its
\* request with the key condition '#pk = :pkValue AND #sk BETWEEN :skValue'
\* and the values :pkValue and :skValue alone; the repository refuses
\* nothing, the answer is the store's.
C25_Between ==
    (/\ last.op = "query"
     /\ last.args.skComparator = "BETWEEN"
     /\ last.args.sk # Undefined
     /\ Truthy(TableOf(last.cls))
     /\ Truthy(QueryPKName)
     /\ Truthy(QuerySKName))
        => /\ Len(last.reqs) = 1
           /\ Text(last.reqs[1].KeyConditionExpression)
                 = "#pk = :pkValue AND #sk BETWEEN :skValue"
           /\ last.reqs[1].ExpressionAttributeValues
                 = (":pkValue" :> last.args.pk) @@ (":skValue" :> last.args.sk)
           /\ last.reqs[1].ExpressionAttributeNames
                 = ("#pk" :> QueryPKName) @@ ("#sk" :> QuerySKName)
           /\ last.err \in {NoError} \cup Faults
                 \cup {ValidationException, ResourceNotFound}

\* A query with BETWEEN has been sent and the store has refused it.
C25_Witness ==
    /\ last.op = "query"
    /\ last.args.skComparator = "BETWEEN"
    /\ last.args.sk = <<"a">>
    /\ Len(last.reqs) = 1
    /\ last.err = ValidationException

\* C26: the read of softDelete goes on to the write only if the store
\* answers it with a record.  If the store fails the read with an error the
\* softDelete fails with that error, and if it answers with no record the
\* softDelete fails with ItemNotFoundError; either way that one Get is all
\* that was sent, no write is to follow and the store is as it was.  If the
\* store fails the write with an error, the softDelete fails with that error.
C26_FailurePaths ==
    [][\A fault \in FaultArgs :
        /\ (/\ Idle
            /\ pending = NoPending
            /\ pending' # NoPending
            /\ SoftDeleteRead(pending'.cls, pending'.pk, pending'.sk, fault))
              => LET resp == Send(store, pending'.reqs[1], fault)
                 IN  resp.err = NoError /\ ~IsAbsent(resp.Item)
        /\ (/\ Idle
            /\ pending = NoPending
            /\ last'.op = "softDelete"
            /\ Len(last'.reqs) >= 1
            /\ SoftDeleteRead(last'.cls, last'.args.pk, last'.args.sk, fault))
              => LET resp == Send(store, last'.reqs[1], fault)
                 IN  /\ Len(last'.reqs) = 1
                     /\ last'.reqs[1].cmd = "Get"
                     /\ resp.err # NoError => last'.err = resp.err
                     /\ resp.err = NoError =>
                           IsAbsent(resp.Item) /\ last'.err = ItemNotFoundError
                     /\ pending' = NoPending
                     /\ store' = store
        /\ (/\ Idle
            /\ pending # NoPending
            /\ Len(last'.reqs) = 2
            /\ \E now \in Timestamps : SoftDeleteWrite(now, fault))
              => LET resp == Send(store, last'.reqs[2], fault)
                 IN  resp.err # NoError => last'.err = resp.err /\ store' = store]_vars

\* A softDelete has failed with ItemNotFoundError after its read, the one
\* request it sent.
C26_Witness ==
    /\ last.op = "softDelete"
    /\ last.err = ItemNotFoundError
    /\ Len(last.reqs) = 1
    /\ pending = NoPending

\* The query names an index: a name that is not empty and not whitespace
\* alone.
QueryOnIndex ==
    /\ last.op = "query"
    /\ Truthy(last.args.indexName)
    /\ ~WhitespaceName(last.args.indexName)
    /\ Truthy(TableOf(last.cls))

\* The request, if one was sent, names the index and binds the placeholder
\* to the field.
BoundOnIndex(placeholder, field) ==
    Len(last.reqs) = 1 =>
        /\ last.reqs[1].IndexName = last.args.indexName
        /\ last.reqs[1].ExpressionAttributeNames[placeholder] = field

\* C27 as stated: a query on an index for which the class declares no index
\* partition key uses the partition key declared for the table, and fails
\* for want of a partition key only if none is declared for the table
\* either; given a sort value, on an index for which the class declares no
\* index sort key, it uses the sort key declared for the table and fails for
\* want of a sort key only if none is declared for the table either.  With
\* the keys found the request is sent, on the index.
C27_Original ==
    QueryOnIndex =>
        LET c == last.cls
            indexName == last.args.indexName
            noPartitionKey == last.err = DecoratorMissingError("Partition key")
            noSortKey == last.err = DecoratorMissingError("Sort key")
        IN  /\ ~DeclaredFor(c, DYNAMO_INDEX_PARTITION_KEYS_KEY, indexName) =>
                  IF DeclaredFor(c, DYNAMO_PARTITION_KEY_KEY, Undefined)
                  THEN /\ ~noPartitionKey
                       /\ BoundOnIndex("#pk", getPartitionKeyName(metadata, c))
                       /\ last.args.sk = Undefined => Len(last.reqs) = 1
                  ELSE noPartitionKey
            /\ (/\ last.args.sk # Undefined
                /\ ~noPartitionKey
                /\ ~DeclaredFor(c, DYNAMO_INDEX_SORT_KEYS_KEY, indexName)) =>
                  IF DeclaredFor(c, DYNAMO_SORT_KEY_KEY, Undefined)
                  THEN /\ Len(last.reqs) = 1
                       /\ BoundOnIndex("#sk", getSortKeyName(metadata, c))
                  ELSE noSortKey

\* C28: a declaration that throws (DuplicateDecoratorError or a
\* configuration error, the only errors a declaration throws) leaves the
\* metadata of every class and every index-key mapping as they were, so that
\* every helper, which reads nothing else, returns for every class and
\* index name what it returned before.
C28_RejectedUnchanged ==
    [][(CallOf(Decorators) /\ last'.err # NoError) =>
        /\ IsDuplicateError(last'.err) \/ IsConfigurationError(last'.err)
        /\ metadata' = metadata
        /\ heap' = heap
        /\ ResolvedName(metadata', heap', last'.cls, last'.op, last'.args.index)
              = ResolvedName(metadata, heap, last'.cls, last'.op, last'.args.index)]_vars

\* An index key declaration on another property has been rejected as a
\* duplicate, and the index still resolves to the field declared first.
C28_Witness ==
    /\ last.op \in IndexDecorators
    /\ IsDuplicateError(last.err)
    /\ last.args.name = Undefined
    /\ ResolvedName(metadata, heap, last.cls, last.op, last.args.index).value
          \notin {Undefined, last.args.prop}

\* The expression text refers to the placeholder.
Mentions(text, placeholder) == \E i \in 1..Len(text) : text[i] = placeholder

\* C29: in every request create and query send, the names bound are the
\* name placeholders of the expression: #pk always, #sk exactly when the
\* expression refers to it; and in every request of query the values bound
\* are the value placeholders of the key condition: :pkValue always,
\* :skValue exactly when the condition refers to it.
C29_PlaceholdersBound ==
    (last.op \in {"create", "query"} /\ Len(last.reqs) = 1) =>
        LET request == last.reqs[1]
            text == IF last.op = "create" THEN request.ConditionExpression
                    ELSE request.KeyConditionExpression
            names == DOMAIN request.ExpressionAttributeNames
        IN  /\ Mentions(text, "#pk") /\ "#pk" \in names
            /\ Mentions(text, "#sk") <=> "#sk" \in names
            /\ names \subseteq {"#pk", "#sk"}
            /\ last.op = "query" =>
                  LET values == DOMAIN request.ExpressionAttributeValues
                  IN  /\ Mentions(text, ":pkValue") /\ ":pkValue" \in values
                      /\ Mentions(text, ":skValue") <=> ":skValue" \in values
                      /\ values \subseteq {":pkValue", ":skValue"}

\* create has sent a request on a class with no sort key: neither the
\* condition nor the names have #sk.
C29_Witness ==
    /\ last.op = "create"
    /\ Len(last.reqs) = 1
    /\ getSortKeyName(metadata, last.cls) = Undefined
    /\ ~Mentions(last.reqs[1].ConditionExpression, "#sk")

\* C30 as stated: a declaration applied to a class changes what no helper
\* returns, for any index name, for another class that does not extend it;
\* for its superclass in particular.
C30_Original ==
    [][CallOf(Decorators) =>
        \A b \in Classes :
            last'.cls \notin SelfAndAncestors(b) =>
                \A op \in Helpers, indexName \in IndexArgs :
                    ResolvedName(metadata', heap', b, op, indexName)
                      = ResolvedName(metadata, heap, b, op, indexName)]_vars

====
